---- MODULE Spec2Model ----
(***************************************************************************)
(* ModalJS: the Eventable publish/subscribe facility (lib/js/eventable.js) *)
(* and the modal dialog built on it (lib/js/modal.js).                     *)
(*                                                                         *)
(* SpecBus     one Eventable object and the host (jQuery) bindings at its  *)
(*             event_selector.                                             *)
(* SpecBusHist SpecBus with the history of the registrations its calls     *)
(*             asked for.                                                  *)
(* SpecReentry one Eventable object whose listeners call addListener and   *)
(*             removeAllListeners on it during a dispatch.                 *)
(* SpecLife    several modal instances: construction, rendering, close and *)
(*             the fade-out callbacks.                                     *)
(* SpecView    one modal: show, hide, minimize, the restore chip, dock and *)
(*             undock, close with its veto protocol.                       *)
(* SpecKeys    one modal on a page with a form input: the focus, keypress  *)
(*             and resize handlers of _bindKeys.                           *)
(* SpecMedia   one modal whose body holds embedded media: the deferred     *)
(*             completion of renderModal, and a 'load' listener.           *)
(* SpecSwap    one modal or confirmation box: transition and its fade-out  *)
(*             callback, the footer buttons, close and the Escape key.     *)
(* SpecConfig  one modal: settings, alertMessage and the remote-content    *)
(*             loader fetchContent.                                        *)
(***************************************************************************)
EXTENDS Integers, Sequences, FiniteSets, TLC

(***************************************************************************)
(* Bounds of the model.                                                    *)
(***************************************************************************)
\* registrations one bus holds: the records of its listener registry, over
\* all buckets, and the handlers bound through the host at its selector
MaxChain == 3
\* modal instances constructed in one run
MaxDialogs == 3
\* fade-outs of close() under way at one time
MaxFx == 2
\* how far below zero the runs let modal.count fall
MaxOverClose == 1
\* chips in the minimized tray at one time
MaxChips == 2
\* embedded media elements in the content of a modal
MaxMedia == 2
\* completion points the runs let one modal reach
MaxCompletions == 2
\* renderModal runs of one instance, the re-renders of transition included
MaxRenders == 3

VARIABLES
    \* ---- the Eventable object (eventable.js:43-55)
    event_style,      \* 'object' or 'element'
    event_selector,   \* "null", or the selector of an element of the page
    listeners,        \* _listeners: event type -> array of listener records;
                      \* a type outside the DOMAIN has no bucket (undefined)
    \* ---- the host environment
    bound,            \* handlers bound with jQuery at event_selector, in order
    \* ---- the last call on the bus, as its caller observes it
    call,             \* the call and its arguments
    invoked,          \* the functions the call invoked, in order of invocation
    result,           \* what the call returned or threw
    \* ---- history
    registered,       \* per type, the functions added and not since removed
    \* ---- the modal instances (modal.js:66-115) and the page
    count,            \* modal.count
    m,                \* per instance, its fields
    els,              \* the elements created so far: handle -> its state
    body,             \* the handles of the elements in the document, in order
    chips,            \* the chips of .modalMinimizedContainer, in order
    tray,             \* whether .modalMinimizedContainer is in the document
    fx,               \* animations under way whose completion callback is due
    \* ---- the last call on a modal, as its caller observes it
    mcall,            \* the call and its arguments
    emitted,          \* the events triggered during the call, in order
    thrown            \* the error the call threw, or "none"

busVars == <<event_style, event_selector, listeners, bound,
             call, invoked, result, registered>>

modalVars == <<count, m, els, body, chips, tray, fx, mcall, emitted, thrown>>

vars == <<busVars, modalVars>>

(***************************************************************************)
(* JavaScript values.                                                      *)
(***************************************************************************)
\* a function object; two function values are the same reference iff equal
Fn(n) == [tag |-> "function", name |-> n]

\* the listener functions of the model, named by the value they return
Callbacks == {"cbUndefined", "cbNull", "cbZero", "cbEmpty", "cbFalse"}

Funcs == {Fn(n) : n \in Callbacks}

\* the value a listener function returns when called
Returns(f) ==
    CASE f.name = "cbUndefined" -> "undefined"
      [] f.name = "cbNull"      -> "null"
      [] f.name = "cbZero"      -> "0"
      [] f.name = "cbEmpty"     -> "''"
      [] f.name = "cbFalse"     -> "false"
      [] OTHER                  -> "undefined"

\* v == false  (loose comparison)
LooseFalse(v) == v \in {"false", "0", "''"}

\* v === false
StrictFalse(v) == v = "false"

\* Eventable._jqEvents
JqEvents ==
    {"click", "dblclick", "hover", "blur", "change", "focus", "focusin",
     "focusout", "keypress", "keydown", "keyup", "ready", "resize", "load",
     "mousedown", "mouseenter", "mouseleave", "mousemove", "mouseout",
     "mouseover", "mouseup"}

\* $.inArray(type, Eventable._jqEvents) > -1
IsJqEvent(type) == type \in JqEvents

\* the event types the calls of the model are made with
CustomTypes == {"custom", "modal.close"}
NativeTypes == {"click"}
Types == CustomTypes \cup NativeTypes

(***************************************************************************)
(* Sequences.                                                              *)
(***************************************************************************)
\* array.splice(idx, 1), idx counted from 1
Splice(s, idx) == [k \in 1..(Len(s) - 1) |-> IF k < idx THEN s[k] ELSE s[k + 1]]

\* number of records in a registry
RegSize(reg) ==
    LET RECURSIVE Sum(_)
        Sum(S) == IF S = {} THEN 0
                  ELSE LET t == CHOOSE x \in S : TRUE
                       IN Len(reg[t]) + Sum(S \ {t})
    IN Sum(DOMAIN reg)

(***************************************************************************)
(* Eventable                                                               *)
(***************************************************************************)
\* the listener record addListener builds (a new Eventable with these fields)
Listener(type, func_ref, style, selector) ==
    [tag            |-> "Eventable",
     func_ref       |-> func_ref,
     event_type     |-> type,
     event_style    |-> style,
     event_selector |-> selector]

\* $(selector) matches an element: the bus's selector names an element of
\* the page
Resolves(selector) == selector # "null"

\* $(selector).bind(type, func_ref)
JqBind(bnd, selector, type, func_ref) ==
    IF Resolves(selector)
    THEN Append(bnd, [type |-> type, func |-> func_ref])
    ELSE bnd

\* $(selector).unbind(type, func_ref)
JqUnbind(bnd, selector, type, func_ref) ==
    IF Resolves(selector)
    THEN SelectSeq(bnd, LAMBDA h : ~(h.type = type /\ h.func = func_ref))
    ELSE bnd

\* $(selector).unbind(type)
JqUnbindType(bnd, selector, type) ==
    IF Resolves(selector)
    THEN SelectSeq(bnd, LAMBDA h : h.type # type)
    ELSE bnd

\* $(selector).unbind()
JqUnbindAll(bnd, selector) ==
    IF Resolves(selector) THEN <<>> ELSE bnd

\* $(selector).trigger(type): the handlers bound for type, in binding order
JqTrigger(bnd, selector, type) ==
    IF Resolves(selector)
    THEN SelectSeq(bnd, LAMBDA h : h.type = type)
    ELSE <<>>

\* hasListeners(event)
hasListeners(reg, event) ==
    /\ event \in DOMAIN reg
    /\ Len(reg[event]) > 0

\* the style of the bus, whatever the type
StyleAsIs(style, type) == style

\* the effective style of a registration under type (eventable.js:81-84)
StyleFor(style, type) == IF IsJqEvent(type) THEN "element" ELSE style

\* addListener(type, func_ref) with a string type, on the registry
\* (eventable.js:91-101)
PushListener(reg, type, func_ref, style, selector) ==
    LET rec == Listener(type, func_ref, style, selector)
    IN IF type \in DOMAIN reg
       THEN [reg EXCEPT ![type] = Append(@, rec)]
       ELSE [t \in DOMAIN reg \cup {type} |->
                IF t = type THEN <<rec>> ELSE reg[t]]

\* the state of a bus and of its host bindings
Bus(reg, bnd) == [listeners |-> reg, bound |-> bnd]

\* addListener(type, func_ref), type a string
addListener(b, style, selector, type, func_ref) ==
    IF StyleFor(style, type) = "element"
    THEN Bus(b.listeners, JqBind(b.bound, selector, type, func_ref))
    ELSE Bus(PushListener(b.listeners, type, func_ref,
                          StyleFor(style, type), selector),
             b.bound)

\* addListener(map): one addListener per key, in the order of the keys
RECURSIVE addListenerMap(_, _, _, _)
addListenerMap(b, style, selector, pairs) ==
    IF pairs = <<>> THEN b
    ELSE addListenerMap(
            addListener(b, style, selector, Head(pairs).type, Head(pairs).func),
            style, selector, Tail(pairs))

\* the opposite comparison: the slot holds a record of another function
SlotIsNot(slot, func_ref) == slot.func_ref # func_ref

\* the comparison of removeListener's scan: listeners[idx] !== func_ref is
\* false, i.e. the slot holds the very value passed in
SlotIs(slot, func_ref) == slot = func_ref

\* the scan of removeListener: the first index whose slot is func_ref, or 0
RECURSIVE ScanFrom(_, _, _)
ScanFrom(arr, func_ref, idx) ==
    IF idx > Len(arr) THEN 0
    ELSE IF SlotIs(arr[idx], func_ref) THEN idx
    ELSE ScanFrom(arr, func_ref, idx + 1)

\* the internal dispatch loop of trigger (eventable.js:211-221): the
\* functions invoked, in order; a return value that is === false ends it
StopsDispatch(v) == StrictFalse(v)

RECURSIVE DispatchFrom(_, _)
DispatchFrom(arr, idx) ==
    IF idx > Len(arr) THEN <<>>
    ELSE LET func == arr[idx].func_ref
         IN IF StopsDispatch(Returns(func))
            THEN <<func>>
            ELSE <<func>> \o DispatchFrom(arr, idx + 1)

\* trigger's internal path: nothing without listeners, else the loop
Dispatch(reg, type) ==
    IF ~hasListeners(reg, type) THEN <<>> ELSE DispatchFrom(reg[type], 1)

\* listener functions that call back into the bus that invokes them:
\* cbAdd calls this.addListener(event.type, cbLate), cbClear calls
\* this.removeAllListeners(event.type); both return nothing
AddFn   == Fn("cbAdd")
ClearFn == Fn("cbClear")
LateFn  == Fn("cbLate")

\* removeAllListeners(event_type), event_type a string whose bucket exists
\* (eventable.js:149-177)
removeAllListeners(b, style, selector, event_type) ==
    IF style = "element"
    THEN Bus(b.listeners, JqUnbindType(b.bound, selector, event_type))
    ELSE IF Len(b.listeners[event_type]) = 0
    THEN b
    ELSE \* this._listeners[event_type] = []: a new array
         Bus([b.listeners EXCEPT ![event_type] = <<>>], b.bound)

\* the loop of trigger (eventable.js:211-221) from index idx, with the
\* effects of the listeners on the bus b. arr is the array the loop holds in
\* its variable listeners; alias tells whether it is still the array stored
\* in this._listeners[type], so that a push onto the bucket shows in it and
\* in its length, which the loop reads again at every turn. The result is
\* the functions invoked and the bus afterwards.
RECURSIVE LoopFrom(_, _, _, _, _, _, _)
LoopFrom(arr, b, alias, style, selector, type, idx) ==
    IF idx > Len(arr) THEN [ran |-> <<>>, bus |-> b]
    ELSE LET func     == arr[idx].func_ref
             replaced == /\ func = ClearFn
                         /\ style # "element"
                         /\ Len(b.listeners[type]) > 0
             b1       == CASE func = AddFn ->
                                addListener(b, style, selector, type, LateFn)
                           [] func = ClearFn ->
                                removeAllListeners(b, style, selector, type)
                           [] OTHER -> b
             alias1   == alias /\ ~replaced
             arr1     == IF alias1 THEN b1.listeners[type] ELSE arr
             rest     == IF StopsDispatch(Returns(func))
                         THEN [ran |-> <<>>, bus |-> b1]
                         ELSE LoopFrom(arr1, b1, alias1, style, selector,
                                       type, idx + 1)
         IN [ran |-> <<func>> \o rest.ran, bus |-> rest.bus]

\* trigger's internal path on the bus b: the functions invoked and the bus
\* afterwards
DispatchLive(b, style, selector, type) ==
    IF ~hasListeners(b.listeners, type) THEN [ran |-> <<>>, bus |-> b]
    ELSE LoopFrom(b.listeners[type], b, TRUE, style, selector, type, 1)

(***************************************************************************)
(* History: what the calls made so far have registered.                    *)
(***************************************************************************)
\* s without its first occurrence of x
RECURSIVE DropFirst(_, _)
DropFirst(s, x) ==
    IF s = <<>> THEN <<>>
    ELSE IF Head(s) = x THEN Tail(s)
    ELSE <<Head(s)>> \o DropFirst(Tail(s), x)

RegisterIn(h, type, func_ref) ==
    IF type \in CustomTypes THEN [h EXCEPT ![type] = Append(@, func_ref)] ELSE h

RECURSIVE RegisterAllIn(_, _)
RegisterAllIn(h, pairs) ==
    IF pairs = <<>> THEN h
    ELSE RegisterAllIn(RegisterIn(h, Head(pairs).type, Head(pairs).func),
                       Tail(pairs))

UnregisterIn(h, type, func_ref) ==
    IF type \in CustomTypes THEN [h EXCEPT ![type] = DropFirst(@, func_ref)] ELSE h

(***************************************************************************)
(* modal: the instances and the page.                                      *)
(***************************************************************************)
NoCall == [op |-> "none"]

Dialogs == 1..MaxDialogs

\* this.window before renderModal
NullEl == [k |-> "null"]

\* the root element the g-th renderModal of instance d builds, and the
\* overlay element its _renderOverlay builds
WindowEl(d, g)  == [k |-> "modalJS", d |-> d, g |-> g]
OverlayEl(d, g) == [k |-> "overlay", d |-> d, g |-> g]

\* the fields of an instance; constructed is FALSE until new modal(args)
NoDialog ==
    [constructed     |-> FALSE,
     modal_id        |-> 0,          \* the n of 'oneModal' + n
     overlay_id      |-> 0,          \* the n of 'oneOverlay' + n
     overlay         |-> "0.75",     \* the opacity, or "false"
     snap_overlay    |-> FALSE,
     display_on_load |-> TRUE,
     close_func      |-> "null",
     title           |-> "",
     content         |-> "",
     footer          |-> <<>>,       \* the buttons of the footer content:
                                     \* label, the jQuery data 'value' and
                                     \* the number of click handlers bound
     window          |-> NullEl,
     is_minimized    |-> FALSE,
     cancel_close    |-> FALSE,
     listeners       |-> <<>>,       \* _listeners of the instance
     renders         |-> 0,          \* renderModal calls so far
     media           |-> {},         \* the media elements of the content
     loaded          |-> {},         \* the closure variable loaded of the
                                     \* last renderModal
     completions     |-> 0,          \* completion points reached so far
     closes          |-> 0,          \* history: kill() calls that went through
     snap            |-> TRUE,
     input_has_focus |-> FALSE,
     load_when       |-> "never",    \* history: addListener('load', cb) was
                                     \* called "before" or "after" renderModal
     load_bound      |-> {},         \* the elements cb is bound to for 'load'
     load_calls      |-> 0]          \* history: invocations of cb

\* an element is in the document
AttachedIn(bd, h) == \E i \in 1..Len(bd) : bd[i] = h

Attached(h) == AttachedIn(body, h)

\* $(...).is(':hidden'): no display, or not in the document
IsHidden(h) == ~Attached(h) \/ els[h].hidden

\* $('.modalJS')[0]
AnyModalInDocument == \E i \in 1..Len(body) : body[i].k = "modalJS"

\* $('#oneOverlay' + n): the first element of the document with that id,
\* as a set of at most one handle
OverlayById(bd, es, n) ==
    LET hits == {i \in 1..Len(bd) : bd[i].k = "overlay" /\ es[bd[i]].id = n}
    IN IF hits = {} THEN {}
       ELSE {bd[CHOOSE i \in hits : \A j \in hits : i <= j]}

\* $('#oneModal' + n): the first element of the document with that id, as
\* a set of at most one handle
RootById(bd, es, n) ==
    LET hits == {i \in 1..Len(bd) : bd[i].k = "modalJS" /\ es[bd[i]].id = n}
    IN IF hits = {} THEN {}
       ELSE {bd[CHOOSE i \in hits : \A j \in hits : i <= j]}

\* $('#oneModal' + n) matches an element
ModalById(bd, es, n) ==
    \E i \in 1..Len(bd) : bd[i].k = "modalJS" /\ es[bd[i]].id = n

\* $(h).remove()
Detach(bd, h) == SelectSeq(bd, LAMBDA x : x # h)

\* a new element
NewEl(es, h, state) ==
    [x \in DOMAIN es \cup {h} |-> IF x = h THEN state ELSE es[x]]

\* elements hs shown or hidden
SetHidden(es, hs, v) ==
    [x \in DOMAIN es |-> IF x \in hs THEN [es[x] EXCEPT !.hidden = v] ELSE es[x]]

\* a form input of the page, outside the modals
InputEl == [k |-> "input"]

\* the state of the input: focused is whether it holds focus, bound whether a
\* focusin/focusout handler of _bindKeys is bound to it, input_has_focus the
\* property of that name on the element itself
NewInput ==
    [hidden |-> FALSE, id |-> 0, classes |-> {}, focused |-> FALSE,
     bound |-> FALSE, input_has_focus |-> "undefined"]

\* $(':input').bind('focusin focusout', ...) of _bindKeys (modal.js:541-543),
\* the document being bd
BindFocus(es, bd) ==
    [x \in DOMAIN es |->
        IF x.k = "input" /\ AttachedIn(bd, x)
        THEN [es[x] EXCEPT !.bound = TRUE]
        ELSE es[x]]

\* the listener functions of a modal: cbVeto sets event.target.cancel_close
\* and returns nothing
VetoFn == Fn("cbVeto")

\* this.trigger(type) of instance d in state o = [m, emitted]: the event is
\* logged, the internal listeners run in order, and a veto listener that is
\* invoked sets cancel_close
TriggerOn(o, d, type) ==
    LET ran == Dispatch(o.m[d].listeners, type)
        veto == \E k \in 1..Len(ran) : ran[k] = VetoFn
    IN [m       |-> IF veto THEN [o.m EXCEPT ![d].cancel_close = TRUE] ELSE o.m,
        emitted |-> Append(o.emitted, [d |-> d, type |-> type])]

(***************************************************************************)
(* SpecBus: the calls on one Eventable object.                             *)
(***************************************************************************)

NoModals ==
    /\ count = 0
    /\ m = [d \in Dialogs |-> NoDialog]
    /\ els = <<>>
    /\ body = <<>>
    /\ chips = <<>>
    /\ tray = FALSE
    /\ fx = <<>>
    /\ mcall = NoCall
    /\ emitted = <<>>
    /\ thrown = "none"

BusOf(style, selector) ==
    /\ event_style = style
    /\ event_selector = selector
    /\ listeners = <<>>
    /\ bound = <<>>
    /\ call = NoCall
    /\ invoked = <<>>
    /\ result = "none"
    /\ registered = [t \in CustomTypes |-> <<>>]

\* a page with no modal and one Eventable object, as constructed
\* (eventable.js:45-52)
InitModal == BusOf("object", "null") /\ NoModals

\* one Eventable object, its style and selector set by its owner
Init ==
    /\ \E style \in {"object", "element"}, selector \in {"null", "#anchor"} :
          BusOf(style, selector)
    /\ NoModals

\* bus.addListener(type, func_ref)
AddListener(type, func_ref) ==
    LET b == addListener(Bus(listeners, bound), event_style, event_selector,
                         type, func_ref)
    IN /\ RegSize(b.listeners) + Len(b.bound) <= MaxChain
       /\ listeners' = b.listeners
       /\ bound' = b.bound
       /\ call' = [op |-> "addListener", type |-> type, func |-> func_ref]
       /\ invoked' = <<>>
       /\ result' = "this"
       /\ UNCHANGED <<event_style, event_selector, modalVars>>

\* bus.addListener({type1: f1, type2: f2})
AddListenerMap(pairs) ==
    LET b == addListenerMap(Bus(listeners, bound), event_style, event_selector,
                            pairs)
    IN /\ RegSize(b.listeners) + Len(b.bound) <= MaxChain
       /\ listeners' = b.listeners
       /\ bound' = b.bound
       /\ call' = [op |-> "addListenerMap", pairs |-> pairs]
       /\ invoked' = <<>>
       /\ result' = "this"
       /\ UNCHANGED <<event_style, event_selector, modalVars>>

\* bus.removeListener(type, func_ref)
RemoveListener(type, func_ref) ==
    /\ call' = [op |-> "removeListener", type |-> type, func |-> func_ref]
    /\ invoked' = <<>>
    /\ UNCHANGED <<event_style, event_selector, modalVars>>
    /\ IF event_style = "element"
       THEN \* eventable.js:116-119
            /\ bound' = JqUnbind(bound, event_selector, type, func_ref)
            /\ result' = "this"
            /\ UNCHANGED listeners
       ELSE IF type \notin DOMAIN listeners
       THEN \* (!x) instanceof Array is false for every x, so line 121
            \* guards nothing; listeners.length of undefined throws
            /\ result' = "TypeError"
            /\ UNCHANGED <<listeners, bound>>
       ELSE LET idx == ScanFrom(listeners[type], func_ref, 1)
            IN IF idx > 0
               THEN /\ listeners' = [listeners EXCEPT ![type] = Splice(@, idx)]
                    /\ result' = "this"
                    /\ UNCHANGED bound
               ELSE /\ result' = "false"
                    /\ UNCHANGED <<listeners, bound>>

\* bus.removeAllListeners(event_type); "undefined" is the call without one
RemoveAllListeners(event_type) ==
    /\ call' = [op |-> "removeAllListeners", type |-> event_type]
    /\ invoked' = <<>>
    /\ UNCHANGED <<event_style, event_selector, modalVars>>
    /\ IF event_style = "element"
       THEN /\ bound' = IF event_type # "undefined"
                        THEN JqUnbindType(bound, event_selector, event_type)
                        ELSE JqUnbindAll(bound, event_selector)
            /\ result' = "this"
            /\ UNCHANGED listeners
       ELSE IF event_type = "undefined"
       THEN /\ listeners' = <<>>
            /\ result' = "this"
            /\ UNCHANGED bound
       ELSE \* (!events) instanceof Array is false; !events.length of an
            \* undefined bucket throws
            IF event_type \notin DOMAIN listeners
            THEN /\ result' = "TypeError"
                 /\ UNCHANGED <<listeners, bound>>
            ELSE /\ listeners' = [listeners EXCEPT ![event_type] = <<>>]
                 /\ result' = "this"
                 /\ UNCHANGED bound

\* the type trigger resolves its argument to: a string is the type itself
\* (eventable.js:189-191); "{}" stands for an event record without a type
\* field, whose event.type is undefined
EventType(event) == IF event = "{}" THEN "undefined" ELSE event

\* a check that lets every event through
AnyTypeValid(event) == FALSE

\* !event.type (eventable.js:199)
HasNoType(event) == EventType(event) \in {"", "undefined"}

\* bus.trigger(event), event a string or a record without a type
Trigger(event) ==
    /\ call' = [op |-> "trigger", type |-> event]
    /\ UNCHANGED <<event_style, event_selector, modalVars>>
    /\ IF HasNoType(event)
       THEN \* throw new Error(...)
            /\ invoked' = <<>>
            /\ result' = "Error"
            /\ UNCHANGED <<listeners, bound>>
       ELSE LET r == DispatchLive(Bus(listeners, bound), event_style,
                                  event_selector, event)
            IN /\ RegSize(r.bus.listeners) + Len(r.bus.bound) <= MaxChain
               /\ invoked' =
                    (IF IsJqEvent(event)
                     THEN [k \in 1..Len(JqTrigger(bound, event_selector, event)) |->
                             JqTrigger(bound, event_selector, event)[k].func]
                     ELSE <<>>)
                    \o r.ran
               /\ listeners' = r.bus.listeners
               /\ bound' = r.bus.bound
               /\ result' = "this"

\* the functions the calls of the model pass for each type: every return
\* value under "custom", one function under the other types
InputsFor(type) == IF type = "custom" THEN Funcs ELSE {Fn("cbUndefined")}

\* the two-key maps addListener is called with
MapFuncs == {Fn("cbUndefined"), Fn("cbFalse")}

MapInputs ==
    {<<[type |-> q[1], func |-> q[3]], [type |-> q[2], func |-> q[4]]>> :
        q \in {r \in Types \X Types \X MapFuncs \X MapFuncs :
                  /\ r[1] # r[2]
                  /\ r[3] \in InputsFor(r[1])
                  /\ r[4] \in InputsFor(r[2])}}

\* the history after call c: what the calls made so far have registered
Track(h, c) ==
    CASE c.op = "addListener"    -> RegisterIn(h, c.type, c.func)
      [] c.op = "addListenerMap" -> RegisterAllIn(h, c.pairs)
      [] c.op = "removeListener" -> UnregisterIn(h, c.type, c.func)
      [] c.op = "removeAllListeners" ->
            IF c.type = "undefined" THEN [t \in CustomTypes |-> <<>>]
            ELSE IF c.type \in CustomTypes THEN [h EXCEPT ![c.type] = <<>>]
            ELSE h
      [] OTHER -> h

Tracked ==
    /\ registered' = Track(registered, call')
    /\ RegSize(registered') <= MaxChain

NextBus ==
    \/ \E type \in Types : \E f \in InputsFor(type) :
          AddListener(type, f) /\ UNCHANGED registered
    \/ \E pairs \in MapInputs : AddListenerMap(pairs) /\ UNCHANGED registered
    \/ \E type \in Types : \E f \in InputsFor(type) :
          RemoveListener(type, f) /\ UNCHANGED registered
    \/ \E type \in Types \cup {"undefined"} :
          RemoveAllListeners(type) /\ UNCHANGED registered
    \/ \E event \in Types \cup {"", "{}"} :
          Trigger(event) /\ UNCHANGED registered

SpecBus == Init /\ [][NextBus]_vars

\* the calls on one bus under one non-native name, with listeners that call
\* back into the bus
ReentryFuncs == {Fn("cbUndefined"), Fn("cbFalse"), AddFn, ClearFn}

NextReentry ==
    \/ \E f \in ReentryFuncs : AddListener("custom", f) /\ UNCHANGED registered
    \/ RemoveAllListeners("custom") /\ UNCHANGED registered
    \/ Trigger("custom") /\ UNCHANGED registered

SpecReentry == Init /\ [][NextReentry]_vars

\* the same calls, with the history of registrations kept
NextBusHist ==
    \/ \E type \in Types : \E f \in InputsFor(type) :
          AddListener(type, f) /\ Tracked
    \/ \E pairs \in MapInputs : AddListenerMap(pairs) /\ Tracked
    \/ \E type \in Types : \E f \in InputsFor(type) :
          RemoveListener(type, f) /\ Tracked
    \/ \E type \in Types \cup {"undefined"} :
          RemoveAllListeners(type) /\ Tracked
    \/ \E event \in Types \cup {"", "{}"} : Trigger(event) /\ Tracked

SpecBusHist == Init /\ [][NextBusHist]_vars

(***************************************************************************)
(* modal: construction, renderModal, kill and the fade-out callbacks.      *)
(***************************************************************************)
\* the observation of a call on a modal that threw nothing
Observed(c, ev) ==
    /\ mcall' = c
    /\ emitted' = ev
    /\ thrown' = "none"

\* the instance new modal(args) builds, modal.count being n after the
\* increment: the arguments are the settings named in args
NewDialog(n, args) ==
    [NoDialog EXCEPT !.constructed     = TRUE,
                     !.modal_id        = n,
                     !.overlay_id      = n,
                     !.overlay         = args.overlay,
                     !.close_func      = args.close_func,
                     !.display_on_load = args.display_on_load,
                     !.media           = args.media,
                     !.snap            = args.snap]

\* new modal(args)
Construct(d, args) ==
    /\ ~m[d].constructed
    /\ \A e \in Dialogs : e < d => m[e].constructed
    /\ count' = count + 1
    /\ m' = [m EXCEPT ![d] = NewDialog(count + 1, args)]
    /\ Observed([op |-> "new", d |-> d], <<>>)
    /\ UNCHANGED <<busVars, els, body, chips, tray, fx>>

\* show(): this.window.show(), then the modal.show event
show(o, d) ==
    LET t == TriggerOn([m |-> o.m, emitted |-> o.emitted], d, "modal.show")
    IN [m |-> t.m, emitted |-> t.emitted,
        els |-> SetHidden(o.els, {o.m[d].window}, FALSE)]

\* hide(): this.window.hide(), then the modal.hide event
hide(o, d) ==
    LET t == TriggerOn([m |-> o.m, emitted |-> o.emitted], d, "modal.hide")
    IN [m |-> t.m, emitted |-> t.emitted,
        els |-> SetHidden(o.els, {o.m[d].window}, TRUE)]

\* $(this.event_selector).trigger('load') of instance d, the document being
\* bd (eventable.js:203-205): the callbacks bound for 'load' at the first
\* element with the id of d are invoked, whichever instance bound them
NativeLoad(mm, bd, es, d) ==
    LET target == RootById(bd, es, mm[d].modal_id)
    IN [e \in DOMAIN mm |->
          IF target # {} /\ target \subseteq mm[e].load_bound
          THEN [mm[e] EXCEPT !.load_calls = @ + 1]
          ELSE mm[e]]

\* the modal.render listener of confirmBox (modal.js:1040-1045)
ConfirmFn == Fn("cbConfirm")

\* $('#' + this.modal_id + ' button').click(...) of that listener, the
\* document being bd: one more click handler on every button inside the
\* first element with the id of d
BindButtons(mm, bd, es, d) ==
    LET target == RootById(bd, es, mm[d].modal_id)
    IN [e \in DOMAIN mm |->
          IF mm[e].window \in target
          THEN [mm[e] EXCEPT !.footer =
                   [k \in 1..Len(@) |-> [@[k] EXCEPT !.clicks = @ + 1]]]
          ELSE mm[e]]

\* the completion point of a render, the document being bd: the load event,
\* then _renderModalCallback with its modal.render event
Completion(o, d, bd) ==
    LET t1 == TriggerOn([m |-> NativeLoad(o.m, bd, o.els, d),
                         emitted |-> o.emitted], d, "load")
        t2 == TriggerOn(t1, d, "modal.render")
        ran == Dispatch(t1.m[d].listeners, "modal.render")
        m3 == IF \E k \in 1..Len(ran) : ran[k] = ConfirmFn
              THEN BindButtons(t2.m, bd, o.els, d)
              ELSE t2.m
    IN [m |-> [m3 EXCEPT ![d].completions = @ + 1],
        emitted |-> t2.emitted, els |-> o.els]

\* _renderOverlay(): with an overlay, a new element with the overlay id is
\* appended to the body and faded in
RenderOverlay(es, bd, mm, d) ==
    IF mm[d].overlay = "false" THEN [els |-> es, body |-> bd]
    ELSE LET h == OverlayEl(d, mm[d].renders)
         IN [els  |-> NewEl(es, h, [hidden |-> FALSE, id |-> mm[d].overlay_id,
                                    classes |-> {}]),
             body |-> Append(bd, h)]

\* the page as the operations on the modals see it
Page ==
    [count |-> count, m |-> m, els |-> els, body |-> body, fx |-> fx,
     emitted |-> <<>>, ok |-> TRUE]

\* renderModal() of instance d on the page st (modal.js:167-257): the page
\* afterwards
renderModal(st, d) ==
    LET w   == WindowEl(d, st.m[d].renders + 1)
        bd0 == Append(st.body, w)
        \* the root is built, given the id, hidden and appended
        m0  == [st.m EXCEPT ![d].window = w, ![d].renders = @ + 1,
                            ![d].loaded = st.m[d].media]
        o0  == [m |-> m0, emitted |-> st.emitted,
                els |-> NewEl(st.els, w, [hidden |-> TRUE,
                                          id |-> st.m[d].modal_id,
                                          classes |-> {},
                                          max_height |-> FALSE,
                                          ribbon |-> {}])]
        o1  == IF st.m[d].media # {}
               THEN \* the completion waits for the media
                    IF ~st.m[d].display_on_load THEN show(o0, d) ELSE o0
               ELSE Completion([o0 EXCEPT !.els =
                                    SetHidden(o0.els, {w}, FALSE)], d, bd0)
        r   == RenderOverlay(o1.els, bd0, o1.m, d)
    IN [st EXCEPT !.m = o1.m,
                  !.els = BindFocus(r.els, st.body),
                  !.body = r.body,
                  !.emitted = o1.emitted]

\* renderModal(), called once, on an instance that was not closed
Render(d) ==
    /\ m[d].constructed
    /\ m[d].renders = 0
    /\ m[d].closes = 0
    /\ LET r == renderModal(Page, d)
       IN /\ m' = r.m
          /\ els' = r.els
          /\ body' = r.body
          /\ Observed([op |-> "renderModal", d |-> d], r.emitted)
    /\ UNCHANGED <<busVars, count, chips, tray, fx>>

\* the decision of kill() after its close event and close callback
CloseIsCancelled(inst) == inst.cancel_close

\* $('.modalJS')[0], the document being bd
AnyModalIn(bd) == \E i \in 1..Len(bd) : bd[i].k = "modalJS"

\* kill() of instance d on the page st (modal.js:912-947): the page
\* afterwards; ok is FALSE where the call leaves the bounds of the model
killOn(st, d) ==
    IF ~AnyModalIn(st.body) THEN st
    ELSE LET t1 == TriggerOn([m |-> st.m, emitted |-> st.emitted], d,
                             "modal.close")
             \* close_func(this)
             m2 == IF st.m[d].close_func = "veto"
                   THEN [t1.m EXCEPT ![d].cancel_close = TRUE]
                   ELSE t1.m
         IN IF CloseIsCancelled(m2[d])
            THEN LET t3 == TriggerOn([m |-> m2, emitted |-> t1.emitted],
                                     d, "modal.cancel_close")
                 IN [st EXCEPT !.m = t3.m, !.emitted = t3.emitted]
            ELSE [st EXCEPT
                    !.ok = /\ @
                           /\ st.count - 1 >= 0 - MaxOverClose
                           /\ Len(st.fx) < MaxFx,
                    !.count = @ - 1,
                    !.m = [m2 EXCEPT ![d].closes = @ + 1],
                    !.emitted = t1.emitted,
                    \* this.window.fadeOut(this.speed, function () {...})
                    !.fx = Append(@, [cb |-> "killWindow", d |-> d,
                                      el |-> st.m[d].window])]

\* the body of kill() as a step
kill(d) ==
    LET r == killOn(Page, d)
    IN /\ r.ok
       /\ count' = r.count
       /\ m' = r.m
       /\ fx' = r.fx
       /\ emitted' = r.emitted
       /\ thrown' = "none"
       /\ UNCHANGED <<busVars, els, body, chips, tray>>

\* kill(), called on an instance that was rendered
Kill(d) ==
    /\ m[d].window # NullEl
    /\ mcall' = [op |-> "kill", d |-> d]
    /\ kill(d)

\* animations of one element run in the order they were started
FxReady(i) == \A j \in 1..(i - 1) : fx[j].el # fx[i].el

\* $(h).remove() cleans the jQuery data and the handlers of h and of the
\* elements inside it: the footer buttons of the instance whose root h is
\* lose their 'value' and their click handlers
Removed(mm, h) ==
    [e \in DOMAIN mm |->
        IF h # NullEl /\ mm[e].window = h
        THEN [mm[e] EXCEPT !.footer =
                 [k \in 1..Len(@) |->
                     [@[k] EXCEPT !.value = "undefined", !.clicks = 0]]]
        ELSE mm[e]]

\* the animations still pending once the callback of the i-th has removed
\* element h. The animations queued behind it on h are stored in the data
\* of h, which remove() cleans: a jQuery that dequeues before it calls the
\* callback has started the next one already and keeps it (keep), a jQuery
\* that dequeues after the callback finds the queue gone; an animation of h
\* that runs already is not in the queue and goes on
FxAfterRemove(i, h, keep) ==
    LET rest      == Splice(fx, i)
        \* waiting in the queue of h, behind the animation of h that runs
        queued(j) == /\ rest[j].el = h
                     /\ \/ fx[i].el = h
                        \/ \E k \in 1..(j - 1) : rest[k].el = h
        idx       == {j \in 1..Len(rest) : ~queued(j)}
        nth(n)    == CHOOSE j \in idx : Cardinality({k \in idx : k < j}) = n - 1
    IN IF keep THEN rest
       ELSE [n \in 1..Cardinality(idx) |-> rest[nth(n)]]

\* the completion callback of a fade-out started by kill()
FxDone(i) ==
    /\ i \in 1..Len(fx)
    /\ fx[i].cb \in {"killWindow", "killOverlay"}
    /\ FxReady(i)
    /\ \E keep \in BOOLEAN :
         LET f    == fx[i]
             rest == FxAfterRemove(i, f.el, keep)
         IN /\ body' = Detach(body, f.el)
            /\ els' = SetHidden(els, {f.el}, TRUE)
            /\ m' = Removed(m, f.el)
            /\ IF f.cb = "killWindow" /\ m[f.d].overlay # "false"
               THEN \* $('#' + context.overlay_id).fadeOut('fast', ...)
                    LET ov == OverlayById(body', els, m[f.d].overlay_id)
                    IN fx' = rest \o [k \in 1..Cardinality(ov) |->
                                        [cb |-> "killOverlay", d |-> f.d,
                                         el |-> CHOOSE h \in ov : TRUE]]
               ELSE fx' = rest
    /\ Observed([op |-> "fadeOutDone", d |-> fx[i].d, cb |-> fx[i].cb], <<>>)
    /\ UNCHANGED <<busVars, count, chips, tray>>

(***************************************************************************)
(* SpecLife: several instances, constructed, rendered and closed.          *)
(***************************************************************************)
DefaultArgs ==
    [overlay |-> "0.75", close_func |-> "null", display_on_load |-> TRUE,
     media |-> {}, snap |-> TRUE]

LifeArgs == {[DefaultArgs EXCEPT !.overlay = ov] : ov \in {"0.75", "false"}}

NextLife ==
    \/ \E d \in Dialogs, args \in LifeArgs : Construct(d, args)
    \/ \E d \in Dialogs : Render(d)
    \/ \E d \in Dialogs : Kill(d)
    \/ \E i \in 1..MaxFx : FxDone(i)

SpecLife == InitModal /\ [][NextLife]_vars

(***************************************************************************)
(* modal: show, hide, minimize, the restore chip, dock.                    *)
(***************************************************************************)
\* modal.addListener('modal.close', function (e) {e.target.cancel_close =
\* true;}): the instance is an Eventable in 'object' style whose selector is
\* '#' + modal_id
AddVetoListener(d) ==
    /\ m[d].constructed
    /\ ~hasListeners(m[d].listeners, "modal.close")
    /\ LET b == addListener(Bus(m[d].listeners, <<>>), "object",
                            m[d].modal_id, "modal.close", VetoFn)
       IN m' = [m EXCEPT ![d].listeners = b.listeners]
    /\ Observed([op |-> "addListener", d |-> d], <<>>)
    /\ UNCHANGED <<busVars, count, els, body, chips, tray, fx>>

\* modal.removeAllListeners('modal.close') on the instance
ClearCloseListeners(d) ==
    /\ m[d].constructed
    /\ IF "modal.close" \notin DOMAIN m[d].listeners
       THEN /\ thrown' = "TypeError"
            /\ UNCHANGED m
       ELSE /\ thrown' = "none"
            /\ m' = [m EXCEPT ![d].listeners =
                        [m[d].listeners EXCEPT !["modal.close"] = <<>>]]
    /\ mcall' = [op |-> "removeAllListeners", d |-> d]
    /\ emitted' = <<>>
    /\ UNCHANGED <<busVars, count, els, body, chips, tray, fx>>

\* modal.show()
Show(d) ==
    /\ m[d].window # NullEl
    /\ LET o == show([m |-> m, emitted |-> <<>>, els |-> els], d)
       IN /\ m' = o.m
          /\ els' = o.els
          /\ Observed([op |-> "show", d |-> d], o.emitted)
    /\ UNCHANGED <<busVars, count, body, chips, tray, fx>>

\* modal.hide()
Hide(d) ==
    /\ m[d].window # NullEl
    /\ LET o == hide([m |-> m, emitted |-> <<>>, els |-> els], d)
       IN /\ m' = o.m
          /\ els' = o.els
          /\ Observed([op |-> "hide", d |-> d], o.emitted)
    /\ UNCHANGED <<busVars, count, body, chips, tray, fx>>

\* _minimizeCallback(): the modal.minimize event (minimize_callback is null)
minimizeCallback(o, d) ==
    LET t == TriggerOn([m |-> o.m, emitted |-> o.emitted], d, "modal.minimize")
    IN [m |-> t.m, emitted |-> t.emitted, els |-> o.els]

\* modal.minimize(); the fade of the overlay is taken as done at once
Minimize(d) ==
    /\ m[d].window # NullEl
    /\ Len(chips) < MaxChips
    /\ LET o1 == hide([m |-> [m EXCEPT ![d].is_minimized = TRUE],
                       emitted |-> <<>>, els |-> els], d)
           o2 == IF m[d].overlay # "false"
                 THEN [o1 EXCEPT !.els =
                          SetHidden(o1.els,
                                    OverlayById(body, els, m[d].overlay_id),
                                    TRUE)]
                 ELSE o1
           o3 == minimizeCallback(o2, d)
       IN /\ m' = o3.m
          /\ els' = o3.els
          /\ tray' = TRUE
          /\ chips' = Append(chips, [d |-> d])
          /\ Observed([op |-> "minimize", d |-> d], o3.emitted)
    /\ UNCHANGED <<busVars, count, body, fx>>

\* context.overlay.css('display', 'none') in the click handler of the chip:
\* the overlay setting is the opacity or false, neither has a css method
OverlaySettingHasCss(inst) == FALSE

\* a click on chip i of the tray (modal.js:710-724)
ChipClick(i) ==
    /\ i \in 1..Len(chips)
    /\ LET d  == chips[i].d
           o1 == show([m |-> m, emitted |-> <<>>, els |-> els], d)
           docked == "modalDocked" \in els[m[d].window].classes
       IN /\ chips' = Splice(chips, i)
          /\ mcall' = [op |-> "chipClick", d |-> d]
          /\ IF docked /\ ~OverlaySettingHasCss(m[d])
             THEN \* the handler ends with a TypeError after show()
                  /\ m' = o1.m
                  /\ els' = o1.els
                  /\ emitted' = o1.emitted
                  /\ thrown' = "TypeError"
             ELSE LET o2 == IF m[d].overlay # "false"
                            THEN [o1 EXCEPT !.els =
                                     SetHidden(o1.els,
                                          OverlayById(body, els,
                                                      m[d].overlay_id),
                                          FALSE)]
                            ELSE o1
                      o3 == minimizeCallback(
                               [o2 EXCEPT !.m[d].is_minimized = FALSE], d)
                  IN /\ m' = o3.m
                     /\ els' = o3.els
                     /\ emitted' = o3.emitted
                     /\ thrown' = "none"
    /\ UNCHANGED <<busVars, count, body, tray, fx>>

DockClasses == {"modalDocked", "dockLeft", "dockRight"}

\* the classes dock(position) adds for a position that is not null
ClassesFor(position) ==
    CASE position = "left"  -> {"modalDocked", "dockLeft"}
      [] position = "right" -> {"modalDocked", "dockRight"}
      [] OTHER              -> {}

\* dock(position) of instance d, position "null", "left" or "right", on
\* the elements es: the elements afterwards
dock(es, d, position) ==
    LET w  == m[d].window
        ov == OverlayById(body, es, m[d].overlay_id)
    IN IF position = "null"
       THEN \* the classes are removed; a hidden overlay is shown again
            [x \in DOMAIN es |->
                IF x = w
                THEN \* $('.modalBodyContainer', this.window).not(':hidden')
                     \* .removeAttr('style'): only a body container that is
                     \* displayed loses the style resize() gave it
                     [es[x] EXCEPT !.classes = @ \ DockClasses,
                                   !.max_height =
                                       IF ~Attached(x) \/ es[x].hidden
                                       THEN @ ELSE FALSE]
                ELSE IF /\ x \in ov
                        /\ m[d].overlay # "false"
                        /\ (~Attached(x) \/ es[x].hidden)
                THEN [es[x] EXCEPT !.hidden = FALSE]
                ELSE es[x]]
       ELSE \* overlay.not(':hidden') is an object, always truthy; the
            \* root loses its style attribute, its display with it
            [x \in DOMAIN es |->
                IF x = w
                THEN \* return this.resize(): max-height on the body
                     \* container (modal.js:658-662)
                     [es[x] EXCEPT
                        !.classes = @ \cup ClassesFor(position),
                        !.hidden = IF ClassesFor(position) = {}
                                   THEN @ ELSE FALSE,
                        !.max_height = TRUE]
                ELSE IF x \in ov /\ ~m[d].snap_overlay
                THEN [es[x] EXCEPT !.hidden = TRUE]
                ELSE es[x]]

\* modal.dock(position)
Dock(d, position) ==
    /\ m[d].window # NullEl
    /\ els' = dock(els, d, position)
    /\ Observed([op |-> "dock", d |-> d, position |-> position], <<>>)
    /\ UNCHANGED <<busVars, count, m, body, chips, tray, fx>>

(***************************************************************************)
(* SpecView: one instance, shown, hidden, minimized, docked and closed.    *)
(***************************************************************************)
ViewDialogs == {1}

ViewArgs ==
    {[DefaultArgs EXCEPT !.overlay = ov, !.close_func = cf] :
        ov \in {"0.75", "false"}, cf \in {"null", "veto"}}

NextView ==
    \/ \E d \in ViewDialogs, args \in ViewArgs : Construct(d, args)
    \/ \E d \in ViewDialogs : Render(d)
    \/ \E d \in ViewDialogs : AddVetoListener(d)
    \/ \E d \in ViewDialogs : ClearCloseListeners(d)
    \/ \E d \in ViewDialogs : Show(d)
    \/ \E d \in ViewDialogs : Hide(d)
    \/ \E d \in ViewDialogs : Minimize(d)
    \/ \E i \in 1..MaxChips : ChipClick(i)
    \/ \E d \in ViewDialogs, position \in {"null", "left", "right"} :
          Dock(d, position)
    \/ \E d \in ViewDialogs : Kill(d)
    \/ \E i \in 1..MaxFx : FxDone(i)

SpecView == InitModal /\ [][NextView]_vars

(***************************************************************************)
(* SpecKeys: one instance on a page with a form input: focus, keypress and *)
(* window resize events.                                                   *)
(***************************************************************************)
\* a page with one form input and no modal
InitKeys ==
    /\ BusOf("object", "null")
    /\ count = 0
    /\ m = [d \in Dialogs |-> NoDialog]
    /\ els = [x \in {InputEl} |-> NewInput]
    /\ body = <<InputEl>>
    /\ chips = <<>>
    /\ tray = FALSE
    /\ fx = <<>>
    /\ mcall = NoCall
    /\ emitted = <<>>
    /\ thrown = "none"

\* a focusin or focusout event on the input: the handler of _bindKeys, if
\* bound, writes input_has_focus on the element the event is for (its this),
\* not on the modal (modal.js:541-543)
Focus(type) ==
    /\ Attached(InputEl)
    /\ els[InputEl].focused = (type = "focusout")
    /\ els' = [els EXCEPT
                 ![InputEl].focused = (type = "focusin"),
                 ![InputEl].input_has_focus =
                     IF els[InputEl].bound
                     THEN (IF type = "focusin" THEN "true" ELSE "false")
                     ELSE @]
    /\ Observed([op |-> type], <<>>)
    /\ UNCHANGED <<busVars, count, m, body, chips, tray, fx>>

\* the key codes of the keypress events: Escape, the arrows left, right and
\* down, and a letter
KeyCodes == {27, 37, 39, 40, 65}

\* one run of the keypress handler of _bindKeys for instance d on the page
\* st (modal.js:546-570): the page afterwards
keypress(st, d, ctrlKey, keyCode) ==
    LET w      == st.m[d].window
        hidden == ~AttachedIn(st.body, w) \/ st.els[w].hidden
    IN IF keyCode = 27 /\ ~hidden
       THEN killOn(st, d)
       ELSE IF /\ ctrlKey
               /\ st.m[d].snap
               /\ ~st.m[d].input_has_focus
               /\ ~hidden
       THEN CASE keyCode = 37 ->
                   [st EXCEPT !.els = dock(dock(@, d, "null"), d, "left")]
              [] keyCode = 39 ->
                   [st EXCEPT !.els = dock(dock(@, d, "null"), d, "right")]
              [] keyCode = 40 ->
                   [st EXCEPT !.els = dock(@, d, "null")]
              [] OTHER -> st
       ELSE st

\* the handlers bound for keypress on the window run one after the other:
\* every renderModal of d has bound one more ($(window).keypress(...) in
\* _bindKeys), n of them are still to run
RECURSIVE keypressAll(_, _, _, _, _)
keypressAll(st, d, ctrlKey, keyCode, n) ==
    IF n = 0 THEN st
    ELSE keypressAll(keypress(st, d, ctrlKey, keyCode), d, ctrlKey, keyCode,
                     n - 1)

\* a keypress event on the window, the page holding the one rendered
\* instance d
KeyPress(d, ctrlKey, keyCode) ==
    /\ m[d].window # NullEl
    /\ mcall' = [op |-> "keypress", d |-> d, ctrlKey |-> ctrlKey,
                 keyCode |-> keyCode]
    /\ LET r == keypressAll(Page, d, ctrlKey, keyCode, m[d].renders)
       IN /\ r.ok
          /\ count' = r.count
          /\ m' = r.m
          /\ els' = r.els
          /\ fx' = r.fx
          /\ emitted' = r.emitted
          /\ thrown' = "none"
    /\ UNCHANGED <<busVars, body, chips, tray>>

\* a resize event on the window: the handler of _bindKeys (modal.js:572-588)
ResizeWindow(d) ==
    /\ m[d].window # NullEl
    /\ LET w == m[d].window
       IN IF "modalDocked" \notin els[w].classes
          THEN UNCHANGED els
          ELSE LET es1 == dock(els, d, "null")
               IN els' = IF "dockRight" \in es1[w].classes
                         THEN dock(es1, d, "right")
                         ELSE dock(es1, d, "left")
    /\ Observed([op |-> "resize", d |-> d], <<>>)
    /\ UNCHANGED <<busVars, count, m, body, chips, tray, fx>>

KeysArgs ==
    {[DefaultArgs EXCEPT !.overlay = ov, !.snap = sn] :
        ov \in {"0.75", "false"}, sn \in BOOLEAN}

NextKeys ==
    \/ \E d \in ViewDialogs, args \in KeysArgs : Construct(d, args)
    \/ \E d \in ViewDialogs : Render(d)
    \/ \E type \in {"focusin", "focusout"} : Focus(type)
    \/ \E d \in ViewDialogs, ctrlKey \in BOOLEAN, keyCode \in KeyCodes :
          KeyPress(d, ctrlKey, keyCode)
    \/ \E d \in ViewDialogs : ResizeWindow(d)
    \/ \E d \in ViewDialogs, position \in {"null", "left", "right"} :
          Dock(d, position)
    \/ \E d \in ViewDialogs : Show(d)
    \/ \E d \in ViewDialogs : Hide(d)
    \/ \E i \in 1..MaxFx : FxDone(i)

SpecKeys == InitKeys /\ [][NextKeys]_vars

(***************************************************************************)
(* SpecMedia: one instance whose content holds embedded media.             *)
(***************************************************************************)
\* a load or loadstart event of media element x of the content of d: the
\* handler renderModal bound (modal.js:218-241)
MediaEvent(d, x) ==
    /\ m[d].window # NullEl
    /\ x \in m[d].media
    /\ m[d].completions < MaxCompletions
    /\ LET left == m[d].loaded \ {x}
           o0 == [m |-> [m EXCEPT ![d].loaded = left],
                  emitted |-> <<>>, els |-> els]
           o1 == IF left = {}
                 THEN Completion(IF m[d].display_on_load
                                 THEN show(o0, d) ELSE o0, d, body)
                 ELSE o0
       IN /\ m' = o1.m
          /\ els' = o1.els
          /\ Observed([op |-> "mediaEvent", d |-> d, x |-> x], o1.emitted)
    /\ UNCHANGED <<busVars, count, body, chips, tray, fx>>

\* modal.addListener('load', cb): 'load' is one of Eventable._jqEvents, so
\* cb is bound through the host at $('#' + modal_id) as the document is now
\* (eventable.js:81-89, modal.js:112)
AddLoadListener(d) ==
    /\ m[d].constructed
    /\ m[d].load_when = "never"
    /\ m' = [m EXCEPT ![d].load_when  = IF m[d].renders = 0 THEN "before"
                                        ELSE "after",
                      ![d].load_bound = RootById(body, els, m[d].modal_id)]
    /\ Observed([op |-> "addListener", d |-> d, type |-> "load"], <<>>)
    /\ UNCHANGED <<busVars, count, els, body, chips, tray, fx>>

MediaArgs ==
    {[DefaultArgs EXCEPT !.media = 1..n, !.display_on_load = dl,
                         !.overlay = ov] :
        n \in 0..MaxMedia, dl \in BOOLEAN, ov \in {"0.75", "false"}}

NextMedia ==
    \/ \E d \in ViewDialogs, args \in MediaArgs : Construct(d, args)
    \/ \E d \in ViewDialogs : Render(d)
    \/ \E d \in ViewDialogs : AddLoadListener(d)
    \/ \E d \in ViewDialogs, x \in 1..MaxMedia : MediaEvent(d, x)
    \/ \E d \in ViewDialogs : Hide(d)
    \/ \E d \in ViewDialogs : Kill(d)
    \/ \E i \in 1..MaxFx : FxDone(i)

SpecMedia == InitModal /\ [][NextMedia]_vars

(***************************************************************************)
(* Claims about the bus.                                                   *)
(***************************************************************************)
\* the functions of the records of a bucket, in order
FuncsOf(arr) == [k \in 1..Len(arr) |-> arr[k].func_ref]

\* s without its first element satisfying Hit
RECURSIVE WithoutFirstHit(_, _)
WithoutFirstHit(s, func_ref) ==
    IF s = <<>> THEN <<>>
    ELSE IF Head(s).func_ref = func_ref THEN Tail(s)
    ELSE <<Head(s)>> \o WithoutFirstHit(Tail(s), func_ref)

\* C1: after any sequence of addListener and removeListener calls on
\* non-native event names (on a bus in the default 'object' style), a
\* trigger(name) invokes the functions still registered under name (added
\* and not since removed), each once, in the order of their registration.
\* Stated for the dispatches no listener of which returns false.
C1_TriggerInvokesSurvivors ==
    ( /\ call.op = "trigger"
      /\ event_style = "object"
      /\ call.type \in CustomTypes
      /\ \A k \in 1..Len(registered[call.type]) :
            Returns(registered[call.type][k]) # "false" )
    => invoked = registered[call.type]

\* C2: in a dispatch over a chain of n internal listeners, if listener k is
\* the first that returns exactly false, listeners 1..k are invoked once
\* each, in order, and listeners k+1..n are not; no other return value
\* (undefined, null, 0, the empty string) stops the dispatch.
C2_ShortCircuitOnFalseOnly ==
    ( /\ call.op = "trigger"
      /\ call.type \in DOMAIN listeners )
    => LET chain  == listeners[call.type]
           falses == {k \in 1..Len(chain) :
                        Returns(chain[k].func_ref) = "false"}
           last   == IF falses = {} THEN Len(chain)
                     ELSE CHOOSE k \in falses : \A j \in falses : k <= j
       IN invoked = [k \in 1..last |-> chain[k].func_ref]

\* a dispatch in which a listener returning 0, null, '' or undefined was
\* passed, a later listener returned false, and a listener after it exists
C2_Witness ==
    /\ call.op = "trigger"
    /\ call.type \in DOMAIN listeners
    /\ \E k \in 2..Len(listeners[call.type]) :
          /\ Returns(listeners[call.type][k].func_ref) = "false"
          /\ \A j \in 1..(k - 1) :
                Returns(listeners[call.type][j].func_ref)
                    \in {"0", "null", "''", "undefined"}
          /\ Len(invoked) = k
          /\ Len(listeners[call.type]) > k

\* C3: removeListener(name, cb), for a cb registered under the non-native
\* name, removes the first record of listeners[name] whose callback is cb,
\* keeps the other records in their order and returns the bus.
C3_RemoveListenerRemoves ==
    [][ ( /\ call'.op = "removeListener"
          /\ event_style = "object"
          /\ call'.type \in DOMAIN listeners
          /\ \E k \in 1..Len(listeners[call'.type]) :
                listeners[call'.type][k].func_ref = call'.func )
        => ( /\ result' = "this"
             /\ listeners' =
                   [listeners EXCEPT ![call'.type] =
                        WithoutFirstHit(@, call'.func)] ) ]_vars

\* C15: removeListener(name, cb) on a non-native name whose bucket exists
\* and holds no record for cb leaves listeners[name] as it was (same records,
\* same order) and returns false, not the bus.
C15_RemoveAbsentReturnsFalse ==
    [][ ( /\ call'.op = "removeListener"
          /\ ~IsJqEvent(call'.type)
          /\ call'.type \in DOMAIN listeners
          /\ \A k \in 1..Len(listeners[call'.type]) :
                listeners[call'.type][k].func_ref # call'.func )
        => ( /\ result' = "false"
             /\ listeners' = listeners ) ]_vars

\* a removeListener that returned false on a bucket of two records, neither
\* of them for the callback passed
C15_Witness ==
    /\ call.op = "removeListener"
    /\ result = "false"
    /\ call.type \in DOMAIN listeners
    /\ Len(listeners[call.type]) >= 2
    /\ \A k \in 1..Len(listeners[call.type]) :
          listeners[call.type][k].func_ref # call.func

\* C16: removeListener(name, cb) for a name that has no bucket in the
\* registry (here a non-native name nothing was registered under) returns
\* the bus, raises no error and leaves the registry as it was.
C16_RemoveWithoutBucketIsNoOp ==
    [][ ( /\ call'.op = "removeListener"
          /\ ~IsJqEvent(call'.type)
          /\ call'.type \notin DOMAIN listeners )
        => ( /\ result' = "this"
             /\ listeners' = listeners ) ]_vars

\* C17: removeAllListeners(name) returns the bus and leaves hasListeners(name)
\* false, whether or not anything was registered under name; after
\* removeAllListeners() hasListeners(n) is false for every name n.
C17_RemoveAllClears ==
    [][ call'.op = "removeAllListeners"
        => ( /\ result' = "this"
             /\ IF call'.type = "undefined"
                THEN \A n \in Types : ~hasListeners(listeners', n)
                ELSE ~hasListeners(listeners', call'.type) ) ]_vars

\* C18: the registry never holds a bucket for a name of Eventable._jqEvents,
\* and hasListeners is false for those names: addListener, in either form,
\* sends such a registration to the host binding only.
C18_NoNativeBucket ==
    \A t \in JqEvents :
        /\ t \notin DOMAIN listeners
        /\ ~hasListeners(listeners, t)

\* an 'object' bus after addListener('click', f): f is bound through the
\* host at the selector, next to a registry that holds other records
C18_Witness ==
    /\ event_style = "object"
    /\ call.op \in {"addListener", "addListenerMap"}
    /\ \E k \in 1..Len(bound) : bound[k].type = "click"
    /\ RegSize(listeners) > 0
    /\ "click" \notin DOMAIN listeners

\* C19: on a bus in 'object' style, removeListener(name, cb) and
\* removeAllListeners(name) for a name of Eventable._jqEvents under which
\* addListener has bound a callback unbind through the host at the selector
\* and raise no error.
C19_NativeRemovalUnbinds ==
    [][ ( /\ event_style = "object"
          /\ call'.op \in {"removeListener", "removeAllListeners"}
          /\ IsJqEvent(call'.type)
          /\ \E k \in 1..Len(bound) : bound[k].type = call'.type )
        => ( /\ result' = "this"
             /\ bound' = IF call'.op = "removeListener"
                         THEN JqUnbind(bound, event_selector, call'.type,
                                       call'.func)
                         ELSE JqUnbindType(bound, event_selector,
                                           call'.type) ) ]_vars

\* C20: trigger with an event that resolves to no type (the empty string,
\* or a record without a type field) throws, invokes no listener and no
\* host handler and leaves the registry and the host bindings as they were.
C20_TriggerWithoutTypeThrows ==
    [][ ( /\ call'.op = "trigger"
          /\ call'.type \in {"", "{}"} )
        => ( /\ result' = "Error"
             /\ invoked' = <<>>
             /\ listeners' = listeners
             /\ bound' = bound ) ]_vars

\* a trigger('') that threw on a bus holding records and host bindings
C20_Witness ==
    /\ call.op = "trigger"
    /\ call.type = ""
    /\ result = "Error"
    /\ RegSize(listeners) > 0
    /\ Len(bound) > 0

(***************************************************************************)
(* Claims about the life of the instances.                                 *)
(***************************************************************************)
\* constructed and not yet successfully closed
Live(d) == m[d].constructed /\ m[d].closes = 0

\* C4: no two live instances (constructed and not successfully closed) have
\* the same modal_id or the same overlay_id.
C4_LiveIdsUnique ==
    \A d, e \in Dialogs :
        (d # e /\ Live(d) /\ Live(e))
        => ( /\ m[d].modal_id # m[e].modal_id
             /\ m[d].overlay_id # m[e].overlay_id )

\* C5: a close() of a rendered dialog with cancel_close not set lowers
\* modal.count by exactly one, and once the fade-out callbacks have run (no
\* fade-out is under way any more) the root of the dialog, and its overlay
\* when the overlay is enabled, are no longer in the document.
C5_CloseRemovesRootAndOverlay ==
    [][ /\ \A d \in Dialogs :
            ( /\ mcall'.op = "kill" /\ mcall'.d = d
              /\ Attached(m[d].window)
              /\ ~m'[d].cancel_close )
            => count' = count - 1
        /\ \A d \in Dialogs :
            ( /\ m'[d].closes > 0
              /\ m'[d].window # NullEl
              /\ fx' = <<>> )
            => ( /\ ~AttachedIn(body', m'[d].window)
                 /\ m'[d].overlay # "false"
                      => \A g \in 1..m'[d].renders :
                            ~AttachedIn(body', OverlayEl(d, g)) )
      ]_vars

\* C7: a close() of a dialog that has already been successfully closed is a
\* no-op: no event, modal.count unchanged, no error.
C7_SecondCloseIsNoOp ==
    [][ \A d \in Dialogs :
          ( /\ mcall'.op = "kill" /\ mcall'.d = d
            /\ m[d].closes > 0 )
          => ( /\ emitted' = <<>>
               /\ count' = count
               /\ thrown' = "none" ) ]_vars

(***************************************************************************)
(* Claims about one instance.                                              *)
(***************************************************************************)
EventTypes(ev) == [k \in 1..Len(ev) |-> ev[k].type]

\* a close() of d started in this state is vetoed: its close_func or one of
\* the modal.close listeners it runs sets cancel_close
Vetoed(d) ==
    \/ m[d].close_func = "veto"
    \/ \E k \in 1..Len(Dispatch(m[d].listeners, "modal.close")) :
          Dispatch(m[d].listeners, "modal.close")[k] = VetoFn

\* C6: a close() during which a modal.close listener or close_func sets
\* cancel_close leaves modal.count, the root element, the visibility and the
\* minimized state unchanged and emits modal.cancel_close after modal.close;
\* a close() that is not vetoed does not emit modal.cancel_close.
C6_VetoedCloseChangesNothing ==
    [][ \A d \in Dialogs :
          ( /\ mcall'.op = "kill" /\ mcall'.d = d
            /\ AnyModalInDocument )
          => IF Vetoed(d)
             THEN /\ count' = count
                  /\ body' = body
                  /\ els' = els
                  /\ fx' = fx
                  /\ m'[d].window = m[d].window
                  /\ m'[d].is_minimized = m[d].is_minimized
                  /\ EventTypes(emitted') = <<"modal.close", "modal.cancel_close">>
             ELSE \A k \in 1..Len(emitted') :
                     emitted'[k].type # "modal.cancel_close" ]_vars

\* C8: a dialog is never both minimized (is_minimized) and docked (its root
\* carrying modalDocked).
C8_NotMinimizedAndDocked ==
    \A d \in Dialogs :
        m[d].window # NullEl
        => ~( /\ m[d].is_minimized
              /\ "modalDocked" \in els[m[d].window].classes )

ChipsOf(cs, d) == {i \in 1..Len(cs) : cs[i].d = d}

\* C9: for a rendered dialog in any state, minimize() followed by a click on
\* the chip it created sets is_minimized to false, makes the dialog visible,
\* emits modal.minimize again and leaves no chip of the dialog in the tray.
C9_ChipClickRestores ==
    [][ \A d \in Dialogs :
          ( /\ mcall'.op = "chipClick" /\ mcall'.d = d
            /\ m[d].is_minimized
            /\ Cardinality(ChipsOf(chips, d)) = 1 )
          => ( /\ ~m'[d].is_minimized
               /\ ~els'[m'[d].window].hidden
               /\ \E k \in 1..Len(emitted') :
                     emitted'[k] = [d |-> d, type |-> "modal.minimize"]
               /\ ChipsOf(chips', d) = {}
               /\ thrown' = "none" ) ]_vars

\* C10: for one render of a dialog with embedded media, the deferred
\* completion (load, modal.render) fires once, at the media event that
\* empties the set of media not yet loaded, and at no later media event.
C10_CompletionFiresOnce ==
    [][ \A d \in Dialogs :
          ( mcall'.op = "mediaEvent" /\ mcall'.d = d )
          => IF m[d].loaded # {} /\ m'[d].loaded = {}
             THEN /\ m'[d].completions = m[d].completions + 1
                  /\ \E k \in 1..Len(emitted') : emitted'[k].type = "load"
             ELSE /\ m'[d].completions = m[d].completions
                  /\ emitted' = <<>> ]_vars

\* C11: a callback registered with addListener('load', cb) on a dialog
\* before its render is invoked when the render reaches its completion point
\* (root in the document and, with embedded media, all of them loaded).
C11_LoadListenerInvoked ==
    [][ \A d \in Dialogs :
          ( /\ m[d].load_when = "before"
            /\ m'[d].completions = m[d].completions + 1 )
          => m'[d].load_calls = m[d].load_calls + 1 ]_vars

\* the docking classes of the root of d in the elements es
SideOf(es, d) == es[m[d].window].classes \cap DockClasses

\* C12: when the resize handler runs for a dialog docked on one side, the
\* dialog is docked on the same side afterwards: left stays left and right
\* stays right.
C12_ResizeKeepsSide ==
    [][ \A d \in Dialogs :
          ( /\ mcall'.op = "resize" /\ mcall'.d = d
            /\ SideOf(els, d) \in {{"modalDocked", "dockLeft"},
                                    {"modalDocked", "dockRight"}} )
          => SideOf(els', d) = SideOf(els, d) ]_vars

\* C13: while the form input holds focus, a Ctrl+Left, Ctrl+Right or
\* Ctrl+Down keypress does not dock or undock a visible, snap-enabled
\* dialog; and a focusin on the input of a page with a rendered dialog
\* leaves input_has_focus of the dialog true, a focusout false.
C13_NoDockWhileTyping ==
    [][ \A d \in Dialogs :
          /\ ( /\ mcall'.op = "keypress" /\ mcall'.d = d
               /\ mcall'.ctrlKey
               /\ mcall'.keyCode \in {37, 39, 40}
               /\ m[d].snap
               /\ ~IsHidden(m[d].window)
               /\ els[InputEl].bound
               /\ els[InputEl].focused )
             => SideOf(els', d) = SideOf(els, d)
          /\ ( /\ mcall'.op \in {"focusin", "focusout"}
               /\ m[d].window # NullEl
               /\ els[InputEl].bound )
             => m'[d].input_has_focus = (mcall'.op = "focusin") ]_vars

\* the calls and events that move a rendered dialog from one state to another
Transitions ==
    {"show", "hide", "minimize", "chipClick", "dock", "renderModal", "kill"}

\* C14: every transition of a rendered dialog other than the final removal
\* after close (show, hide, minimize, restore, dock left or right, undock,
\* render completion, close intent) emits a lifecycle event on the bus of
\* the dialog before the operation returns.
C14_TransitionsEmit ==
    [][ \A d \in Dialogs :
          ( /\ mcall'.op \in Transitions
            /\ mcall'.d = d
            /\ (els' # els \/ m'[d] # m[d]) )
          => \E k \in 1..Len(emitted') : emitted'[k].d = d ]_vars

\* C21: for a rendered dialog docked by dock('left') or dock('right'),
\* dock(null) removes modalDocked, dockLeft and dockRight and takes the
\* max-height styling of the dock off the body container, whatever show,
\* hide and minimize calls came between the two dock calls.
C21_UndockRestores ==
    [][ \A d \in Dialogs :
          ( /\ mcall'.op = "dock" /\ mcall'.d = d
            /\ mcall'.position = "null"
            /\ "modalDocked" \in els[m[d].window].classes )
          => ( /\ SideOf(els', d) = {}
               /\ ~els'[m[d].window].max_height ) ]_vars

\* C22: in every renderModal(), the tail of the render (content classes,
\* overlay, interaction handlers, centering) runs only after the completion
\* point: by the time the overlay is in the document and the handlers are
\* bound, the load and modal.render events of that render were emitted.
C22_TailAfterCompletion ==
    [][ \A d \in Dialogs :
          m'[d].renders = m[d].renders + 1
          => ( /\ m'[d].completions = m[d].completions + 1
               /\ \E k \in 1..Len(emitted') :
                     emitted'[k] = [d |-> d, type |-> "modal.render"] ) ]_vars

\* C27: the root of a dialog never carries dockLeft and dockRight together,
\* and carries modalDocked exactly when it carries one of the two.
C27_OneSideAtMost ==
    \A d \in Dialogs :
        m[d].window # NullEl
        => LET cls == els[m[d].window].classes
           IN /\ ~("dockLeft" \in cls /\ "dockRight" \in cls)
              /\ ("modalDocked" \in cls)
                    <=> ("dockLeft" \in cls \/ "dockRight" \in cls)


(***************************************************************************)
(* modal: transition, the confirmation box and its buttons.                *)
(***************************************************************************)
\* $.extend(target, settings): every property of settings is copied
Extend(target, settings) ==
    [f \in DOMAIN target \cup DOMAIN settings |->
        IF f \in DOMAIN settings THEN settings[f] ELSE target[f]]

\* the overlay setting is left as it is while the root is rebuilt
OverlayKept(inst) == inst.overlay

\* context.overlay = false, for the time of the re-render (modal.js:966-967)
OverlayDuringSwap(inst) == "false"

\* the transitions of d whose fade-out has not completed
PendingSwaps(d) ==
    Cardinality({i \in 1..Len(fx) : fx[i].cb = "transition" /\ fx[i].d = d})

\* modal.transition(settings) on a rendered instance that was not closed:
\* the settings are applied and the root starts to fade out
Transition(d, settings) ==
    /\ m[d].window # NullEl
    /\ m[d].closes = 0
    /\ m[d].renders + PendingSwaps(d) < MaxRenders
    /\ Len(fx) < MaxFx
    /\ m' = [m EXCEPT ![d] = Extend(@, settings)]
    /\ fx' = Append(fx, [cb |-> "transition", d |-> d, el |-> m[d].window])
    /\ Observed([op |-> "transition", d |-> d], <<>>)
    /\ UNCHANGED <<busVars, count, els, body, chips, tray>>

\* the completion callback of the fade-out of transition
\* (modal.js:964-977): the overlay setting is saved and set to false, the
\* root is removed, renderModal runs, the overlay setting is put back
TransitionDone(i) ==
    /\ i \in 1..Len(fx)
    /\ fx[i].cb = "transition"
    /\ FxReady(i)
    /\ \E keep \in BOOLEAN :
         LET d          == fx[i].d
             bg_overlay == m[d].overlay
             old        == m[d].window
             m1 == [m EXCEPT ![d].overlay = OverlayDuringSwap(m[d])]
             st == [Page EXCEPT
                      !.m    = Removed(m1, old),
                      !.els  = SetHidden(els, {fx[i].el}, TRUE),
                      !.body = Detach(body, old),
                      !.fx   = FxAfterRemove(i, old, keep)]
             r  == renderModal(st, d)
         IN /\ m' = [r.m EXCEPT ![d].overlay = bg_overlay]
            /\ els' = r.els
            /\ body' = r.body
            /\ fx' = r.fx
            /\ Observed([op |-> "transitionDone", d |-> d], r.emitted)
    /\ UNCHANGED <<busVars, count, chips, tray>>

\* String.prototype.toLowerCase on the button labels
Lower(label) ==
    CASE label = "Yes"    -> "yes"
      [] label = "Cancel" -> "cancel"
      [] label = "OK"     -> "ok"
      [] OTHER            -> label

\* the button confirmBox builds for a label (modal.js:1027-1031)
Button(label) == [label |-> label, value |-> Lower(label), clicks |-> 0]

\* modal.confirmBox(title, content, buttons), buttons an array of labels:
\* the instance is constructed with the buttons as its footer, the
\* modal.render listener is added and renderModal runs
ConfirmBox(d, buttons) ==
    /\ ~m[d].constructed
    /\ \A e \in Dialogs : e < d => m[e].constructed
    /\ LET box == [NewDialog(count + 1, DefaultArgs) EXCEPT
                      !.footer = [k \in 1..Len(buttons) |-> Button(buttons[k])]]
           b   == addListener(Bus(box.listeners, <<>>), "object",
                              box.modal_id, "modal.render", ConfirmFn)
           st  == [Page EXCEPT
                      !.count = count + 1,
                      !.m = [m EXCEPT ![d] =
                               [box EXCEPT !.listeners = b.listeners]]]
           r   == renderModal(st, d)
       IN /\ count' = r.count
          /\ m' = r.m
          /\ els' = r.els
          /\ body' = r.body
          /\ Observed([op |-> "confirmBox", d |-> d], r.emitted)
    /\ UNCHANGED <<busVars, chips, tray, fx>>

\* the buttons confirmBox uses when none are given, and other lists
ButtonLists == {<<"Yes", "Cancel">>, <<"OK">>}

\* a click on the k-th footer button of d, displayed in the document: each
\* click handler bound to the button reads its data 'value' and triggers
\* modal.confirm_selected with it (modal.js:1041-1044)
ClickButton(d, k) ==
    /\ m[d].window # NullEl
    /\ ~IsHidden(m[d].window)
    /\ k \in 1..Len(m[d].footer)
    /\ mcall' = [op |-> "click", d |-> d, label |-> m[d].footer[k].label]
    /\ emitted' = [j \in 1..m[d].footer[k].clicks |->
                     [d |-> d, type |-> "modal.confirm_selected",
                      params |-> m[d].footer[k].value]]
    /\ thrown' = "none"
    /\ UNCHANGED <<busVars, count, m, els, body, chips, tray, fx>>

(***************************************************************************)
(* SpecSwap: one instance, a plain modal or a confirmation box, rendered,  *)
(* swapped with transition, closed with kill or with the Escape key.       *)
(***************************************************************************)
SwapArgs == {[DefaultArgs EXCEPT !.overlay = ov] : ov \in {"0.75", "false"}}

SwapSettings == {[title |-> "next"], [title |-> "next", overlay |-> "false"]}

NextSwap ==
    \/ \E d \in ViewDialogs, args \in SwapArgs : Construct(d, args)
    \/ \E d \in ViewDialogs : Render(d)
    \/ \E d \in ViewDialogs, buttons \in ButtonLists : ConfirmBox(d, buttons)
    \/ \E d \in ViewDialogs, settings \in SwapSettings :
          Transition(d, settings)
    \/ \E i \in 1..MaxFx : TransitionDone(i)
    \/ \E d \in ViewDialogs, k \in 1..2 : ClickButton(d, k)
    \/ \E d \in ViewDialogs, keyCode \in {27, 65} : KeyPress(d, FALSE, keyCode)
    \/ \E d \in ViewDialogs : Show(d)
    \/ \E d \in ViewDialogs : Hide(d)
    \/ \E d \in ViewDialogs : Kill(d)
    \/ \E i \in 1..MaxFx : FxDone(i)

SpecSwap == InitModal /\ [][NextSwap]_vars


(***************************************************************************)
(* Claims on transition, the confirmation box and the Escape key.          *)
(***************************************************************************)
\* the overlay elements of a document, in document order
OverlaysIn(bd) == SelectSeq(bd, LAMBDA x : x.k = "overlay")

\* C23: a step that completes transition() on a rendered dialog leaves the
\* overlay setting of the dialog as it was when the swap began, leaves the
\* overlay elements of the document as they were (none removed, none
\* added), and leaves modal.count unchanged.
C23_SwapKeepsOverlay ==
    [][ \A d \in Dialogs :
          (mcall'.op = "transitionDone" /\ mcall'.d = d)
          => /\ m'[d].overlay = m[d].overlay
             /\ OverlaysIn(body') = OverlaysIn(body)
             /\ count' = count ]_vars

\* a transition of a dialog with an overlay in the document has completed:
\* the dialog was rendered a second time and its overlay is still there
C23_Witness ==
    \E d \in Dialogs :
        /\ mcall.op = "transitionDone" /\ mcall.d = d
        /\ m[d].overlay # "false"
        /\ m[d].renders >= 2
        /\ Attached(m[d].window)
        /\ OverlayById(body, els, m[d].overlay_id) # {}

\* C25: each click on a rendered button of a confirmation box emits exactly
\* one modal.confirm_selected event on the box, and its payload is the
\* lower-cased label of the button.
C25_ClickEmitsLabel ==
    [][ mcall'.op = "click"
        => /\ Len(emitted') = 1
           /\ emitted'[1] = [d |-> mcall'.d, type |-> "modal.confirm_selected",
                             params |-> Lower(mcall'.label)] ]_vars

\* C29: once kill() has gone through for a dialog, no step puts a root of
\* that dialog into the document.
C29_NoRootAfterClose ==
    [][ \A d \in Dialogs :
          m[d].closes > 0
          => \A i \in 1..Len(body') :
                (body'[i].k = "modalJS" /\ body'[i].d = d)
                => AttachedIn(body, body'[i]) ]_vars

\* the modal.close events in a sequence of events
Closes(ev) == {k \in 1..Len(ev) : ev[k].type = "modal.close"}

\* C30: an Escape keypress while the dialog is visible calls kill() once,
\* modal.count dropping by one, however many times the dialog was rendered;
\* an Escape keypress while it is hidden calls kill() zero times.
C30_EscapeClosesOnce ==
    [][ \A d \in Dialogs :
          (mcall'.op = "keypress" /\ mcall'.d = d /\ mcall'.keyCode = 27)
          => IF IsHidden(m[d].window)
             THEN Closes(emitted') = {} /\ count' = count
             ELSE Cardinality(Closes(emitted')) = 1 /\ count' = count - 1
      ]_vars


(***************************************************************************)
(* modal: settings, alertMessage and the remote-content loader.            *)
(***************************************************************************)
\* the own properties of an instance once the constructor has declared its
\* fields (modal.js:72-103), with the properties $.extend(this, new
\* Eventable()) copies onto it: the fields of Eventable and Logger and the
\* methods of their prototypes. The methods of modal.prototype are not own
\* properties.
OwnProperties ==
    {"window", "input_has_focus", "modal_id", "overlay_id", "content",
     "container", "footer", "modal_class", "title", "sub_title", "theme",
     "speed", "overlay", "user_actions", "draggable", "overlay_exit",
     "snap_overlay", "snap", "center", "center_resize", "minimizable",
     "is_minimized", "hug_content", "no_close_button", "display_on_load",
     "content_selector", "minimize_callback", "render_modal_callback",
     "close_func", "cancel_close",
     "event_selector", "event_style", "event_type", "func_ref",
     "func_params", "_listeners", "_log_prefix", "debug",
     "addListener", "removeListener", "removeAllListeners", "trigger",
     "hasListeners", "setLoggerPrefix", "log"}

\* every name passes
AnyProperty(inst, idx) == TRUE

\* this.hasOwnProperty(idx)
hasOwnProperty(inst, idx) == idx \in OwnProperties

\* settings(args) on the instance inst (modal.js:125-137): the instance
\* afterwards
settings(inst, args) ==
    LET applied == {idx \in DOMAIN args : hasOwnProperty(inst, idx)}
    IN [f \in DOMAIN inst \cup applied |->
           IF f \in applied THEN args[f] ELSE inst[f]]

\* modal.settings(args)
Settings(d, args) ==
    /\ m[d].constructed
    /\ m' = [m EXCEPT ![d] = settings(@, args)]
    /\ Observed([op |-> "settings", d |-> d, args |-> args], <<>>)
    /\ UNCHANGED <<busVars, count, els, body, chips, tray, fx>>

\* options: declared fields, names no field has, and the name of a method
\* of modal.prototype
ConfigOptions ==
    {[title |-> "Hello"],
     [title |-> "Hello", bogus |-> "x"],
     [bogus |-> "x"],
     [overlay |-> "false", kill |-> "x"]}

\* a JavaScript value passed as type: its typeof and its text
Js(t, v) == [t |-> t, v |-> v]

Undefined == Js("undefined", "")

Severities ==
    {Js("number", "0"), Js("number", "1"), Js("number", "2"),
     Js("number", "3"), Js("string", "error"), Js("string", "notification"),
     Js("string", "success"), Js("string", "warning"), Js("string", "2"),
     Undefined}

\* the class alertMessage chooses (modal.js:811-830): an undefined type is
\* 'notification'; the switch compares with ===
AlertClass(type) ==
    LET ty == IF type.t = "undefined" THEN Js("string", "notification")
              ELSE type
    IN CASE ty \in {Js("number", "2"), Js("string", "error")}
              -> "notifyRed"
         [] ty \in {Js("number", "1"), Js("string", "notification")}
              -> "notifyYellow"
         [] OTHER
              -> "notifyGreen"

\* modal.alertMessage(message, type) on a rendered instance: the ribbon of
\* the root takes the class
AlertMessage(d, type) ==
    /\ m[d].window # NullEl
    /\ els' = [els EXCEPT ![m[d].window].ribbon = @ \cup {AlertClass(type)}]
    /\ Observed([op |-> "alertMessage", d |-> d, type |-> type,
                 msg_cls |-> AlertClass(type)], <<>>)
    /\ UNCHANGED <<busVars, count, m, body, chips, tray, fx>>

\* the timer of alertMessage, 7.5 s after the ribbon was shown
\* (modal.js:836-840)
RibbonTimeout(d, msg_cls) ==
    /\ m[d].window # NullEl
    /\ msg_cls \in els[m[d].window].ribbon
    /\ els' = [els EXCEPT ![m[d].window].ribbon = @ \ {msg_cls}]
    /\ Observed([op |-> "ribbonTimeout", d |-> d], <<>>)
    /\ UNCHANGED <<busVars, count, m, body, chips, tray, fx>>

\* the outcomes of the request of fetchContent: success with markup, with
\* empty markup, without an html field, and failure
Responses ==
    {[ok |-> TRUE, content |-> DefaultArgs, html |-> "<p>"],
     [ok |-> TRUE, content |-> DefaultArgs, html |-> ""],
     [ok |-> TRUE, content |-> DefaultArgs],
     [ok |-> FALSE]}

\* data.html.length > 0 can be evaluated
HtmlHasLength(data) == "html" \in DOMAIN data

\* modal.fetchContent(link, params, args) once the request has ended with
\* response: the success or the error callback (modal.js:1084-1100); d is
\* the instance the callback constructs
FetchContent(d, response, args) ==
    /\ ~m[d].constructed
    /\ \A e \in Dialogs : e < d => m[e].constructed
    /\ mcall' = [op |-> "fetchContent", d |-> d, response |-> response]
    /\ count' = count + 1
    /\ UNCHANGED <<busVars, chips, tray, fx>>
    /\ IF response.ok
       THEN LET hwnd == NewDialog(count + 1, response.content)
            IN IF ~HtmlHasLength(response)
               THEN \* TypeError: data.html is undefined
                    /\ m' = [m EXCEPT ![d] = hwnd]
                    /\ thrown' = "TypeError"
                    /\ emitted' = <<>>
                    /\ UNCHANGED <<els, body>>
               ELSE LET h1 == IF response.html # ""
                              THEN [hwnd EXCEPT !.content = response.html]
                              ELSE hwnd
                        st == [Page EXCEPT
                                 !.count = count + 1,
                                 !.m = [m EXCEPT ![d] = settings(h1, args)]]
                        r  == renderModal(st, d)
                        t  == TriggerOn([m |-> r.m, emitted |-> r.emitted],
                                        d, "modal.fetch_content")
                    IN /\ m' = t.m
                       /\ els' = r.els
                       /\ body' = r.body
                       /\ emitted' = t.emitted
                       /\ thrown' = "none"
       ELSE LET box == [NewDialog(count + 1, DefaultArgs) EXCEPT
                           !.content = "Error occurred during request!"]
                r   == renderModal([Page EXCEPT !.count = count + 1,
                                                !.m = [m EXCEPT ![d] = box]],
                                   d)
            IN /\ m' = r.m
               /\ els' = r.els
               /\ body' = r.body
               /\ emitted' = r.emitted
               /\ thrown' = "none"

(***************************************************************************)
(* SpecConfig: one instance, constructed directly or by the loader,        *)
(* configured with settings, rendered, and its ribbon used.                *)
(***************************************************************************)
NextConfig ==
    \/ \E d \in ViewDialogs, args \in LifeArgs : Construct(d, args)
    \/ \E d \in ViewDialogs, response \in Responses,
          args \in {[title |-> "Hello"], [bogus |-> "x"]} :
          FetchContent(d, response, args)
    \/ \E d \in ViewDialogs, args \in ConfigOptions : Settings(d, args)
    \/ \E d \in ViewDialogs : Render(d)
    \/ \E d \in ViewDialogs, type \in Severities : AlertMessage(d, type)
    \/ \E d \in ViewDialogs,
          msg_cls \in {"notifyRed", "notifyYellow", "notifyGreen"} :
          RibbonTimeout(d, msg_cls)

SpecConfig == InitModal /\ [][NextConfig]_vars

(***************************************************************************)
(* Claims on settings, alertMessage and the loader.                        *)
(***************************************************************************)
\* C24: settings(args) applies the options whose names are fields of the
\* instance and no other: a name that is no field is no field afterwards,
\* and a field the options do not name keeps its value.
C24_SettingsAppliesDeclared ==
    [][ \A d \in Dialogs :
          (mcall'.op = "settings" /\ mcall'.d = d)
          => LET args == mcall'.args
             IN /\ \A n \in DOMAIN args :
                      IF n \in DOMAIN m[d]
                      THEN m'[d][n] = args[n]
                      ELSE n \notin DOMAIN m'[d]
                /\ \A n \in DOMAIN m[d] \ DOMAIN args :
                      n \in DOMAIN m'[d] /\ m'[d][n] = m[d][n] ]_vars

\* settings was called with a field and with a name that is no field: the
\* field has the new value and the name is no field
C24_Witness ==
    \E d \in Dialogs :
        /\ mcall.op = "settings" /\ mcall.d = d
        /\ {"title", "bogus"} \subseteq DOMAIN mcall.args
        /\ m[d].title = "Hello"
        /\ "bogus" \notin DOMAIN m[d]

\* the class the claim gives a severity
ClaimedClass(type) ==
    CASE type \in {Js("number", "2"), Js("string", "error")}
           -> "notifyRed"
      [] type \in {Js("number", "1"), Js("string", "notification")}
           -> "notifyYellow"
      [] OTHER
           -> "notifyGreen"

\* C26: alertMessage uses the error style for 2 and 'error', the
\* notification style for 1 and 'notification', and the success style for
\* 0, 'success' and every other type, an omitted one included.
C26_SeverityMapping ==
    [][ mcall'.op = "alertMessage"
        => mcall'.msg_cls = ClaimedClass(mcall'.type) ]_vars

\* the roots in a document
RootsIn(bd) == {i \in 1..Len(bd) : bd[i].k = "modalJS"}

\* C28: when the request succeeds with a response without an html field,
\* the loader constructs and renders a dialog and emits
\* modal.fetch_content, and nothing is thrown; when the request fails it
\* renders one dialog.
C28_FetchWithoutHtml ==
    [][ \A d \in Dialogs :
          (mcall'.op = "fetchContent" /\ mcall'.d = d)
          => /\ thrown' = "none"
             /\ m'[d].constructed
             /\ AttachedIn(body', m'[d].window)
             /\ Cardinality(RootsIn(body')) = Cardinality(RootsIn(body)) + 1
             /\ mcall'.response.ok
                => /\ emitted' # <<>>
                   /\ emitted'[Len(emitted')] =
                         [d |-> d, type |-> "modal.fetch_content"] ]_vars


(***************************************************************************)
(* Claims on the minimized tray, the veto of kill and the dispatch of      *)
(* trigger.                                                                *)
(***************************************************************************)
\* C31: in every state the tray holds exactly one chip for a dialog that is
\* minimized and no chip for a dialog that is not.
C31_OneChipWhenMinimized ==
    \A d \in Dialogs :
        Cardinality(ChipsOf(chips, d)) = IF m[d].is_minimized THEN 1 ELSE 0


\* C32: a kill() that follows a vetoed kill() of the same dialog, and during
\* which neither close_func nor a modal.close listener sets cancel_close, is
\* not vetoed: it goes through, modal.count dropping by one, and emits no
\* modal.cancel_close.
C32_VetoIsPerCall ==
    [][ \A d \in Dialogs :
          ( /\ mcall'.op = "kill" /\ mcall'.d = d
            /\ AnyModalInDocument
            /\ m[d].cancel_close
            /\ ~Vetoed(d) )
          => ( /\ m'[d].closes = m[d].closes + 1
               /\ count' = count - 1
               /\ EventTypes(emitted') = <<"modal.close">> ) ]_vars


\* C34: on a bus in the 'element' style, trigger(name) with a non-native
\* name delivers the event to every callback addListener bound under that
\* name at the element of the bus.
C34_ElementStyleDelivers ==
    [][ ( /\ call'.op = "trigger"
          /\ event_style = "element"
          /\ call'.type \in CustomTypes
          /\ \E k \in 1..Len(bound) : bound[k].type = call'.type )
        => \A k \in 1..Len(bound) :
              bound[k].type = call'.type
              => \E j \in 1..Len(invoked') : invoked'[j] = bound[k].func ]_vars


\* C33: a trigger with a non-native name invokes the listeners registered
\* under the name when trigger was called, in order, up to the first that
\* returns false, whatever addListener and removeAllListeners calls the
\* listeners make for that name during the dispatch.
C33_DispatchOverSnapshot ==
    [][ (call'.op = "trigger" /\ call'.type \in CustomTypes)
        => invoked' = Dispatch(listeners, call'.type) ]_vars

====
